---------------------------- MODULE Spec2Model ----------------------------
(***************************************************************************)
(* JD-Agent: the three MCP tool servers over the shared SQLite candidate   *)
(* database.                                                               *)
(*   - local_mcp_resume_agent/server.py : schema / query / mutation / CSV  *)
(*   - local_mcp_analyzer/server.py     : query + classify-and-transfer    *)
(*   - jd_agent_test/sub_agents/server.py : analyze_jd_industry + query    *)
(*                                                                         *)
(* Conventions.                                                            *)
(*   A Python str is a sequence of tokens (words, single blanks, "_").     *)
(*   strip(), lower() and replace() are computed on the tokens.            *)
(*   A SQL / JSON value is a record [k, n, s]: k is the kind ("null",      *)
(*   "int", "str", "blob"), n the integer, s the string.                   *)
(*   A JSON object (dict) is a function from its keys to values.           *)
(*   Of the eleven columns of the candidate schema the model keeps id,     *)
(*   name, email and skills; phone ... last_updated are nullable and       *)
(*   unconstrained exactly like skills.                                    *)
(***************************************************************************)
EXTENDS Integers, Sequences, FiniteSets, TLC

VARIABLES
    server,     \* which server process this behaviour is: "resume" | "analyzer" | "jd"
    apiKey,     \* GEMINI_API_KEY is configured (module level, read once at import)
    db,         \* the committed content of database.db
    calls,      \* number of call_tool requests handled so far
    req,        \* the request being handled / last handled
    tool,       \* what became of the tool function the request named
    resp,       \* what call_mcp_tool returned for it
    pre,        \* the committed database when the request arrived
    run,        \* classify_and_transfer_candidates: its locals while it runs
    log         \* log records written while handling the request

vars == <<server, apiKey, db, calls, req, tool, resp, pre, run, log>>

---------------------------------------------------------------------------
(* Bounds of the model *)

MaxCalls == 2

MaxBatch == 2

---------------------------------------------------------------------------
(* Python strings *)

WS == {" ", "\n"}

RECURSIVE LStrip(_)
LStrip(s) ==
    IF s = <<>> THEN <<>>
    ELSE IF Head(s) \in WS THEN LStrip(Tail(s)) ELSE s

RECURSIVE RStrip(_)
RStrip(s) ==
    IF s = <<>> THEN <<>>
    ELSE IF s[Len(s)] \in WS THEN RStrip(SubSeq(s, 1, Len(s) - 1)) ELSE s

\* str.strip()
Strip(s) == RStrip(LStrip(s))

\* str.lower() on one token
LowerTok(t) ==
    CASE t = "Software" -> "software"
      [] t = "Development" -> "development"
      [] t = "IT" -> "it"
      [] t = "Services" -> "services"
      [] t = "Banking" -> "banking"
      [] t = "Insurance" -> "insurance"
      [] t = "Healthcare" -> "healthcare"
      [] t = "Travel" -> "travel"
      [] t = "Real" -> "real"
      [] t = "Estate" -> "estate"
      [] OTHER -> t

Lower(s) == [i \in 1..Len(s) |-> LowerTok(s[i])]

\* str.replace(" ", "_")
ReplaceBlank(s) == [i \in 1..Len(s) |-> IF s[i] = " " THEN "_" ELSE s[i]]

---------------------------------------------------------------------------
(* Values *)

Null == [k |-> "null", n |-> 0, s |-> <<>>]
IntV(i) == [k |-> "int", n |-> i, s |-> <<>>]
StrV(t) == [k |-> "str", n |-> 0, s |-> t]
BlobV == [k |-> "blob", n |-> 0, s |-> <<>>]

EmptyDict == [c \in {} |-> Null]

\* the largest of a set of naturals, 0 for none
Max(S) == IF S = {} THEN 0 ELSE CHOOSE m \in S : \A x \in S : x <= m

Range(f) == {f[x] : x \in DOMAIN f}

---------------------------------------------------------------------------
(* The categories and the table names *)

CATEGORIES ==
    << <<"Software", " ", "Development">>,
       <<"IT", " ", "Services">>,
       <<"Banking">>,
       <<"Insurance">>,
       <<"Healthcare">>,
       <<"Travel">>,
       <<"Real", " ", "Estate">> >>

CategorySet == Range(CATEGORIES)

\* a slug built from the first category whatever the classification
TargetTableNameOfFirst(category) == Lower(ReplaceBlank(CATEGORIES[1])) \o <<"_candidates">>

\* ai_classification.replace(" ", "_").lower() + "_candidates"
TargetTableName(category) == Lower(ReplaceBlank(category)) \o <<"_candidates">>

CandidatesTable == <<"candidates">>

\* the seven category tables create_db.py creates
CategoryTables ==
    { <<"software", "_", "development", "_candidates">>,
      <<"it", "_", "services", "_candidates">>,
      <<"banking", "_candidates">>,
      <<"insurance", "_candidates">>,
      <<"healthcare", "_candidates">>,
      <<"travel", "_candidates">>,
      <<"real", "_", "estate", "_candidates">> }

\* a table name no schema ever holds
NoSuchTable == <<"nosuch">>

TableNames == {CandidatesTable, NoSuchTable} \cup CategoryTables

---------------------------------------------------------------------------
(* The SQLite store *)

\* A table: cols maps each column to its declared type; strict says the table
\* carries the constraints of create_db.py (id INTEGER PRIMARY KEY
\* AUTOINCREMENT, name TEXT NOT NULL, email TEXT UNIQUE NOT NULL); rows are in
\* rowid order; seq is the AUTOINCREMENT high-water mark (sqlite_sequence).
NoTable == [exists |-> FALSE, cols |-> EmptyDict, strict |-> FALSE,
            rows |-> <<>>, seq |-> 0]

CandidateCols == [id |-> "INTEGER", name |-> "TEXT", email |-> "TEXT", skills |-> "TEXT"]

StrictTable(rows, seq) ==
    [exists |-> TRUE, cols |-> CandidateCols, strict |-> TRUE, rows |-> rows, seq |-> seq]

Row(id, name, email, skills) ==
    [id |-> id, name |-> name, email |-> email, skills |-> skills]

\* the two rows create_database inserts
SeedRows ==
    << Row(IntV(1), StrV(<<"Zoe">>), StrV(<<"zoe@x">>), StrV(<<"SQL">>)),
       Row(IntV(2), StrV(<<"Max">>), StrV(<<"max@x">>), StrV(<<"SEO">>)) >>

\* database.db as create_database leaves it
DbCreated ==
    [t \in TableNames |->
        IF t = CandidatesTable THEN StrictTable(SeedRows, 2)
        ELSE IF t \in CategoryTables THEN StrictTable(<<>>, 0)
        ELSE NoTable]

\* a database that holds the source table only
DbSourceOnly ==
    [t \in TableNames |->
        IF t = CandidatesTable THEN StrictTable(SeedRows, 2) ELSE NoTable]

\* sqlite3.connect on a path with no file: a database with no table
DbEmpty == [t \in TableNames |-> NoTable]

\* database.db after an earlier transfer put a row into
\* software_development_candidates
DbTransferred ==
    [DbCreated EXCEPT
        ![<<"software", "_", "development", "_candidates">>] =
            StrictTable(<<Row(IntV(1), StrV(<<"Old">>), StrV(<<"old@x">>), StrV(<<"C">>))>>, 1)]

\* the database file as create_db.py leaves it, with the category tables
\* dropped, new, or after an earlier transfer
InitialDatabases == {DbCreated, DbSourceOnly, DbEmpty, DbTransferred}

Ids(tbl) == {tbl.rows[i].id.n : i \in {j \in DOMAIN tbl.rows : tbl.rows[j].id.k = "int"}}

\* the constraints of a create_db.py table on a full row set
RowsValid(rows) ==
    /\ \A i \in DOMAIN rows :
          /\ rows[i].id.k = "int"
          /\ rows[i].name.k # "null"
          /\ rows[i].email.k # "null"
    /\ \A i, j \in DOMAIN rows :
          i # j => /\ rows[i].id # rows[j].id
                   /\ rows[i].email # rows[j].email

\* rows in rowid order after adding r to a table whose rowid is its id
RECURSIVE InsertSorted(_, _)
InsertSorted(rows, r) ==
    IF rows = <<>> THEN <<r>>
    ELSE IF r.id.n < Head(rows).id.n THEN <<r>> \o rows
    ELSE <<Head(rows)>> \o InsertSorted(Tail(rows), r)

Digits == {"0", "1", "2", "3", "4", "5", "6", "7", "8", "9"}

IntOfTok(t) ==
    CASE t = "0" -> 0 [] t = "1" -> 1 [] t = "2" -> 2 [] t = "3" -> 3
      [] t = "4" -> 4 [] t = "5" -> 5 [] t = "6" -> 6 [] t = "7" -> 7
      [] t = "8" -> 8 [] t = "9" -> 9

\* a column of INTEGER affinity stores a text that reads as an integer as
\* that integer
IntegerAffinity(v) ==
    IF v.k = "str" /\ Len(v.s) = 1 /\ v.s[1] \in Digits
    THEN [k |-> "int", n |-> IntOfTok(v.s[1]), s |-> <<>>]
    ELSE v

\* a column of TEXT affinity stores an integer as its decimal text
TextAffinity(v) == IF v.k = "int" THEN StrV(<<ToString(v.n)>>) ELSE v

Ok(tbl, n) == [ok |-> TRUE, err |-> "", tbl |-> tbl, n |-> n]
Err(tbl, e) == [ok |-> FALSE, err |-> e, tbl |-> tbl, n |-> 0]

\* INSERT OR REPLACE: a row in conflict with the new one is deleted first
SqlInsertOrReplace(tbl, data) ==
    IF ~tbl.exists \/ DOMAIN data = {} \/ ~(DOMAIN data \subseteq DOMAIN tbl.cols)
    THEN Err(tbl, "rejected")
    ELSE LET r == [c \in DOMAIN tbl.cols |->
                      IF c \in DOMAIN data THEN data[c]
                      ELSE IF c = "id" THEN IntV(tbl.seq + 1) ELSE Null]
             conflict(x) == tbl.strict /\ (x.id = r.id \/ x.email = r.email)
         IN Ok([tbl EXCEPT !.rows = Append(SelectSeq(@, LAMBDA x : ~conflict(x)), r),
                           !.seq = @ + 1], tbl.seq + 1)

\* an INSERT that drops the keys the table has no column for
SqlInsertKnownColumns(tbl, data) ==
    IF ~tbl.exists THEN Err(tbl, "no such table")
    ELSE LET r == [c \in DOMAIN tbl.cols |-> IF c \in DOMAIN data THEN data[c] ELSE Null]
         IN Ok([tbl EXCEPT !.rows = Append(tbl.rows, r), !.seq = tbl.seq + 1], tbl.seq + 1)

\* INSERT INTO t (keys of data) VALUES (values of data) -- one statement.
\* n is cursor.lastrowid.
SqlInsert(tbl, data) ==
    IF ~tbl.exists THEN Err(tbl, "no such table")
    ELSE IF DOMAIN data = {} THEN Err(tbl, "syntax error")
    ELSE IF ~(DOMAIN data \subseteq DOMAIN tbl.cols) THEN Err(tbl, "no such column")
    ELSE
      LET given(c) == IF c \in DOMAIN data
                      THEN (IF tbl.cols[c] = "INTEGER" THEN IntegerAffinity(data[c])
                            ELSE TextAffinity(data[c]))
                      ELSE Null
      IN IF tbl.strict
         THEN LET auto == Max(Ids(tbl) \cup {tbl.seq}) + 1
                  idv  == IF given("id").k = "null" THEN IntV(auto) ELSE given("id")
                  r    == [c \in DOMAIN tbl.cols |-> IF c = "id" THEN idv ELSE given(c)]
              IN IF idv.k # "int" THEN Err(tbl, "datatype mismatch")
                 ELSE IF r.name.k = "null" \/ r.email.k = "null"
                      THEN Err(tbl, "NOT NULL constraint failed")
                 ELSE IF \E i \in DOMAIN tbl.rows :
                            tbl.rows[i].id = idv \/ tbl.rows[i].email = r.email
                      THEN Err(tbl, "UNIQUE constraint failed")
                 ELSE Ok([tbl EXCEPT !.rows = InsertSorted(tbl.rows, r),
                                     !.seq = Max({tbl.seq, idv.n})], idv.n)
         ELSE LET r == [c \in DOMAIN tbl.cols |-> given(c)]
              IN Ok([tbl EXCEPT !.rows = Append(tbl.rows, r),
                                !.seq = tbl.seq + 1], tbl.seq + 1)


\* rows of a create_db.py table put back in rowid (= id) order
RECURSIVE SortById(_)
SortById(rows) ==
    IF rows = <<>> THEN <<>> ELSE InsertSorted(SortById(Tail(rows)), Head(rows))

\* the tokens SQLite's tokenizer keeps: blanks separate and are dropped
SqlTokens(text) == SelectSeq(text, LAMBDA t : t \notin WS)

\* A WHERE expression of the form <operand> = <operand>, an operand being an
\* integer literal or a column name.  "" when it compiles against cols, else
\* the error SQLite reports.
CondError(cond, cols) ==
    LET c == SqlTokens(cond)
    IN IF ~(Len(c) = 3 /\ c[2] = "=" /\ c[1] # "=" /\ c[3] # "=")
       THEN "syntax error"
       ELSE IF \E i \in {1, 3} : c[i] \notin Digits /\ c[i] \notin DOMAIN cols
            THEN "no such column"
            ELSE ""

OperandValue(tok, row) == IF tok \in Digits THEN IntV(IntOfTok(tok)) ELSE row[tok]

\* the WHERE expression on one row; a comparison with NULL is not true
CondHolds(cond, row) ==
    LET c == SqlTokens(cond)
        a == OperandValue(c[1], row)
        b == OperandValue(c[3], row)
    IN a.k # "null" /\ b.k # "null" /\ a = b

Matching(tbl, hasWhere, cond) ==
    {i \in DOMAIN tbl.rows : ~hasWhere \/ CondHolds(cond, tbl.rows[i])}

BlobOfName == "CAST(name AS BLOB)"

\* the result column list: "*" or column names or the BLOB cast, "," separated
SelectItems(columns) == SelectSeq(SqlTokens(columns), LAMBDA t : t # ",")

ResultRow(items, row) ==
    LET keys == UNION {IF items[i] = "*" THEN DOMAIN row ELSE {items[i]} : i \in DOMAIN items}
    IN [c \in keys |-> IF c = BlobOfName
                       THEN (IF row.name.k = "null" THEN Null ELSE BlobV)
                       ELSE row[c]]

\* SELECT columns FROM t [WHERE cond];  rows is cursor.fetchall() as dicts
SqlSelect(tbl, columns, hasWhere, cond) ==
    LET items == SelectItems(columns)
    IN IF ~tbl.exists THEN [ok |-> FALSE, err |-> "no such table", rows |-> <<>>]
       ELSE IF items = <<>> THEN [ok |-> FALSE, err |-> "syntax error", rows |-> <<>>]
       ELSE IF \E i \in DOMAIN items :
                  /\ items[i] \notin {"*", BlobOfName}
                  /\ items[i] \notin DOMAIN tbl.cols
            THEN [ok |-> FALSE, err |-> "no such column", rows |-> <<>>]
       ELSE IF BlobOfName \in Range(items) /\ "name" \notin DOMAIN tbl.cols
            THEN [ok |-> FALSE, err |-> "no such column", rows |-> <<>>]
       ELSE IF hasWhere /\ CondError(cond, tbl.cols) # ""
            THEN [ok |-> FALSE, err |-> CondError(cond, tbl.cols), rows |-> <<>>]
       ELSE LET hit == SelectSeq(tbl.rows, LAMBDA r : ~hasWhere \/ CondHolds(cond, r))
            IN [ok |-> TRUE, err |-> "",
                rows |-> [i \in DOMAIN hit |-> ResultRow(items, hit[i])]]

\* UPDATE t SET (keys of new_values) = ? WHERE cond -- one statement; a
\* constraint failure on any row backs the whole statement out.  n is rowcount.
SqlUpdate(tbl, new_values, cond) ==
    IF ~tbl.exists THEN Err(tbl, "no such table")
    ELSE IF ~(DOMAIN new_values \subseteq DOMAIN tbl.cols) THEN Err(tbl, "no such column")
    ELSE IF CondError(cond, tbl.cols) # "" THEN Err(tbl, CondError(cond, tbl.cols))
    ELSE
      LET hit == Matching(tbl, TRUE, cond)
          upd(r) == [c \in DOMAIN r |-> IF c \in DOMAIN new_values THEN new_values[c] ELSE r[c]]
          rows == [i \in DOMAIN tbl.rows |->
                      IF i \in hit THEN upd(tbl.rows[i]) ELSE tbl.rows[i]]
      IN IF tbl.strict /\ hit # {} /\ ~RowsValid(rows)
         THEN Err(tbl, "constraint failed")
         ELSE Ok([tbl EXCEPT !.rows = IF tbl.strict THEN SortById(rows) ELSE rows,
                             !.seq = IF tbl.strict
                                     THEN Max({tbl.seq} \cup {rows[i].id.n : i \in DOMAIN rows})
                                     ELSE tbl.seq],
                 Cardinality(hit))

\* DELETE FROM t WHERE cond -- one statement.  n is rowcount.
SqlDelete(tbl, cond) ==
    IF ~tbl.exists THEN Err(tbl, "no such table")
    ELSE IF CondError(cond, tbl.cols) # "" THEN Err(tbl, CondError(cond, tbl.cols))
    ELSE LET hit == Matching(tbl, TRUE, cond)
         IN Ok([tbl EXCEPT !.rows = SelectSeq(tbl.rows, LAMBDA r : ~CondHolds(cond, r))],
               Cardinality(hit))

\* PRAGMA table_info('t'): the columns, none when the table does not exist
TableInfo(d, t) == d[t].cols


---------------------------------------------------------------------------
(* What a Python call does: it returns ret or raises err; db is the committed *)
(* database it leaves.                                                       *)

Returns(ret, d) == [raised |-> FALSE, err |-> "", ret |-> ret, db |-> d, met |-> FALSE]
Raises(e, d) == [raised |-> TRUE, err |-> e, ret |-> <<>>, db |-> d, met |-> FALSE]

\* the call ran into the fault of the environment
Faulted(outcome) == [outcome EXCEPT !.met = TRUE]

\* The faults of the environment a request can meet: sqlite3.connect fails
\* (the file cannot be opened), or COMMIT fails (the file is locked by another
\* process, the disk is full).
Faults == {"none", "connect", "commit"}

ConnectError == "unable to open database file"
CommitError == "database is locked"

---------------------------------------------------------------------------
(* local_mcp_resume_agent/server.py: the tools *)

list_db_tables(d, fault) ==
    IF fault = "connect"
    THEN Faulted(Returns([success |-> FALSE,
                          message |-> <<"Error listing tables", ConnectError>>,
                          tables |-> {}], d))
    ELSE Returns([success |-> TRUE,
                  message |-> <<"Tables listed successfully.">>,
                  tables |-> {t \in DOMAIN d : d[t].exists}], d)

R_get_table_schema(d, table_name, fault) ==
    IF fault = "connect" THEN Faulted(Raises(ConnectError, d))
    ELSE IF DOMAIN TableInfo(d, table_name) = {}
         THEN Raises("Table not found or no schema information.", d)
         ELSE Returns([table_name |-> table_name, columns |-> TableInfo(d, table_name)], d)

R_query_db_table(d, table_name, columns, condition, fault) ==
    IF fault = "connect" THEN Faulted(Raises(ConnectError, d))
    ELSE LET sel == SqlSelect(d[table_name], columns, condition # <<>>, condition)
         IN IF sel.ok THEN Returns(sel.rows, d)
            ELSE Raises(sel.err, d)

\* an except branch without conn.rollback(), on a connection whose close
\* flushes: the statement's uncommitted writes stay
RollbackStatementKeeps(d, table_name, written) == [d EXCEPT ![table_name] = written]

\* what conn.rollback() leaves of a statement's uncommitted writes: nothing
RollbackStatement(d, table_name, written) == d

insert_data(d, table_name, data, fault) ==
    IF DOMAIN data = {}
    THEN Returns([success |-> FALSE, message |-> <<"No data provided for insertion.">>], d)
    ELSE IF fault = "connect" THEN Faulted(Raises(ConnectError, d))
    ELSE LET ins == SqlInsert(d[table_name], data)
         IN IF ~ins.ok
            THEN Returns([success |-> FALSE,
                          message |-> <<"Error inserting data into table", ins.err>>],
                         RollbackStatement(d, table_name, ins.tbl))
            ELSE IF fault = "commit"
            THEN Faulted(Returns([success |-> FALSE,
                                  message |-> <<"Error inserting data into table", CommitError>>],
                                 RollbackStatement(d, table_name, ins.tbl)))
            ELSE Returns([success |-> TRUE,
                          message |-> <<"Data inserted successfully. Row ID:">>,
                          row_id |-> ins.n],
                         [d EXCEPT ![table_name] = ins.tbl])

\* not condition or not condition.strip()
\* a test for the empty string only
ConditionIsEmptyString(condition) == condition = <<>>

\* if not condition or not condition.strip()
ConditionIsEmpty(condition) == condition = <<>> \/ Strip(condition) = <<>>

update_data(d, table_name, new_values, condition, fault) ==
    IF DOMAIN new_values = {}
    THEN Returns([success |-> FALSE, message |-> <<"No new values provided for update.">>], d)
    ELSE IF ConditionIsEmpty(condition)
    THEN Returns([success |-> FALSE,
                  message |-> <<"Update condition cannot be empty.">>], d)
    ELSE IF fault = "connect" THEN Faulted(Raises(ConnectError, d))
    ELSE LET upd == SqlUpdate(d[table_name], new_values, condition)
         IN IF ~upd.ok
            THEN Returns([success |-> FALSE,
                          message |-> <<"Error updating data in table", upd.err>>],
                         RollbackStatement(d, table_name, upd.tbl))
            ELSE IF fault = "commit"
            THEN Faulted(Returns([success |-> FALSE,
                                  message |-> <<"Error updating data in table", CommitError>>],
                                 RollbackStatement(d, table_name, upd.tbl)))
            ELSE Returns([success |-> TRUE,
                          message |-> <<"row(s) updated successfully in table">>,
                          rows_updated |-> upd.n],
                         [d EXCEPT ![table_name] = upd.tbl])

delete_data(d, table_name, condition, fault) ==
    IF ConditionIsEmpty(condition)
    THEN Returns([success |-> FALSE,
                  message |-> <<"Deletion condition cannot be empty.">>], d)
    ELSE IF fault = "connect" THEN Faulted(Raises(ConnectError, d))
    ELSE LET del == SqlDelete(d[table_name], condition)
         IN IF ~del.ok
            THEN Returns([success |-> FALSE,
                          message |-> <<"Error deleting data from table", del.err>>],
                         RollbackStatement(d, table_name, del.tbl))
            ELSE IF fault = "commit"
            THEN Faulted(Returns([success |-> FALSE,
                                  message |-> <<"Error deleting data from table", CommitError>>],
                                 RollbackStatement(d, table_name, del.tbl)))
            ELSE Returns([success |-> TRUE,
                          message |-> <<"row(s) deleted successfully from table">>,
                          rows_deleted |-> del.n],
                         [d EXCEPT ![table_name] = del.tbl])


\* csv_content is a sequence of lines, a line a sequence of cells.
\* not csv_content.strip(): nothing but blanks and line breaks
CsvIsBlank(csv) ==
    \A i \in DOMAIN csv : Len(csv[i]) <= 1 /\ \A j \in DOMAIN csv[i] : csv[i][j] \in WS \cup {""}

CellValue(c) == IF c = "" THEN StrV(<<>>) ELSE StrV(<<c>>)

\* csv.DictReader: the rows after the header, empty lines skipped, each the
\* values of [row_data.get(col, None) for col in csv_columns]
CsvRows(csv) ==
    LET header == csv[1]
        lines == SelectSeq(Tail(csv), LAMBDA l : l # <<>>)
        at(c) == CHOOSE j \in DOMAIN header : header[j] = c
    IN [i \in DOMAIN lines |->
           [c \in Range(header) |->
               IF at(c) <= Len(lines[i]) THEN CellValue(lines[i][at(c)]) ELSE Null]]

\* cursor.executemany(insert_query, data_to_insert): the statement once per
\* row, stopping at the first row the store rejects; tbl then holds the rows
\* accepted before it, uncommitted
RECURSIVE ExecuteMany(_, _)
ExecuteMany(tbl, rows) ==
    IF rows = <<>> THEN Ok(tbl, 0)
    ELSE LET ins == SqlInsert(tbl, Head(rows))
         IN IF ~ins.ok THEN Err(tbl, ins.err)
            ELSE LET rest == ExecuteMany(ins.tbl, Tail(rows))
                 IN IF rest.ok THEN Ok(rest.tbl, rest.n + 1) ELSE rest

\* a failure path that commits what executemany wrote before the error
RollbackBatchKeeps(d, table_name, written) == [d EXCEPT ![table_name] = written]

\* what conn.rollback() leaves of the batch's uncommitted rows: nothing
RollbackBatch(d, table_name, written) == d

\* a validation that lets every header through
NoUnknownCsvColumns(csv_columns, table_columns) == {}

\* lines 286-294: the header columns the table does not have
UnknownCsvColumns(csv_columns, table_columns) ==
    {csv_columns[j] : j \in {k \in DOMAIN csv_columns : csv_columns[k] \notin DOMAIN table_columns}}

CsvFailure(kind, e) ==
    [success |-> FALSE, message |-> <<kind, e>>, rows_inserted |-> 0]

insert_data_from_csv(d, table_name, csv, fault) ==
    IF CsvIsBlank(csv)
    THEN Returns([success |-> FALSE,
                  message |-> <<"No CSV content provided for insertion.">>], d)
    ELSE IF fault = "connect"
    THEN Faulted(Returns(CsvFailure("Database error during CSV insert", ConnectError), d))
    ELSE IF csv[1] = <<>>
    THEN Returns(CsvFailure("CSV data validation error",
                            "CSV file is empty or missing headers."), d)
    ELSE IF DOMAIN TableInfo(d, table_name) = {}
    THEN Returns(CsvFailure("CSV data validation error",
                            "Table not found or no schema information."), d)
    ELSE IF UnknownCsvColumns(csv[1], TableInfo(d, table_name)) # {}
    THEN Returns(CsvFailure("CSV data validation error",
                            "CSV column not found in table"), d)
    ELSE IF CsvRows(csv) = <<>>
    THEN Returns([success |-> TRUE,
                  message |-> <<"CSV content parsed but no rows found to insert.">>,
                  rows_inserted |-> 0], d)
    ELSE LET many == ExecuteMany(d[table_name], CsvRows(csv))
         IN IF ~many.ok
            THEN Returns(CsvFailure("Database error during CSV insert", many.err),
                         RollbackBatch(d, table_name, many.tbl))
            ELSE IF fault = "commit"
            THEN Faulted(Returns(CsvFailure("Database error during CSV insert", CommitError),
                                 RollbackBatch(d, table_name, many.tbl)))
            ELSE Returns([success |-> TRUE,
                          message |-> <<"Successfully inserted row(s) into table">>,
                          rows_inserted |-> many.n],
                         [d EXCEPT ![table_name] = many.tbl])

---------------------------------------------------------------------------
(* call_mcp_tool: the dispatcher *)

\* json.dumps raises TypeError on a bytes value; only a query's rows can hold
\* one (every other tool returns str, int, bool and None members)
QueryTools == {"query_db_table", "query_table"}

JsonDumpsRaises(name, ret) ==
    /\ name \in QueryTools
    /\ \E i \in DOMAIN ret : \E c \in DOMAIN ret[i] : ret[i][c].k = "blob"

TextContent(text) == [type |-> "text", text |-> text]

\* the dispatcher returned this list of contents
Responds(content) == [raised |-> FALSE, err |-> "", content |-> content]

\* the dispatcher let this exception through to its caller
Propagates(e) == [raised |-> TRUE, err |-> e, content |-> <<>>]

FailedPayload(name, e) ==
    [success |-> FALSE, message |-> <<"Failed to execute tool", name, e>>]

NotImplementedPayload(name) ==
    [success |-> FALSE, message |-> <<"Tool", name, "not implemented by this server.">>]

JsonTypeError == "Object of type bytes is not JSON serializable"

\* a dispatcher without the try: the tool's exception reaches the caller
DispatchWithoutTry(name, out) ==
    IF out.raised THEN Propagates(out.err)
    ELSE Responds(<<TextContent(out.ret)>>)

\* a dispatcher that raises on a name it does not know
DispatchUnknownRaises(name) == Propagates("KeyError")

\* local_mcp_resume_agent: the try / except Exception around run_async and
\* json.dumps, for a tool the server registers; out is what the tool function did
R_DispatchRegistered(name, out) ==
    IF out.raised THEN Responds(<<TextContent(FailedPayload(name, out.err))>>)
    ELSE IF JsonDumpsRaises(name, out.ret)
         THEN Responds(<<TextContent(FailedPayload(name, JsonTypeError))>>)
         ELSE Responds(<<TextContent(out.ret)>>)

\* the else branch: the name is not a key of the server's tool table
R_DispatchUnknown(name) == Responds(<<TextContent(NotImplementedPayload(name))>>)

\* local_mcp_analyzer: the same dispatcher
A_DispatchRegistered(name, out) ==
    IF out.raised THEN Responds(<<TextContent(FailedPayload(name, out.err))>>)
    ELSE IF JsonDumpsRaises(name, out.ret)
         THEN Responds(<<TextContent(FailedPayload(name, JsonTypeError))>>)
         ELSE Responds(<<TextContent(out.ret)>>)

A_DispatchUnknown(name) == Responds(<<TextContent(NotImplementedPayload(name))>>)

\* jd_agent_test/sub_agents: query_table is dumped as JSON, the str that
\* analyze_jd_industry returns goes through str()
J_DispatchRegistered(name, out) ==
    IF out.raised THEN Responds(<<TextContent(FailedPayload(name, out.err))>>)
    ELSE IF name \in {"query_table"}
         THEN (IF JsonDumpsRaises(name, out.ret)
               THEN Responds(<<TextContent(FailedPayload(name, JsonTypeError))>>)
               ELSE Responds(<<TextContent(out.ret)>>))
         ELSE Responds(<<TextContent(out.ret)>>)

J_DispatchUnknown(name) == Responds(<<TextContent(NotImplementedPayload(name))>>)

\* the tool tables
R_ADK_DB_TOOLS ==
    {"list_db_tables", "get_table_schema", "query_db_table", "insert_data",
     "update_data", "delete_data", "insert_data_from_csv"}

A_ADK_DB_TOOLS == {"query_db_table", "classify_and_transfer_candidates", "get_table_schema"}

ADK_ALL_TOOLS == {"analyze_jd_industry", "query_table"}

\* names a client may send that are another server's, or nobody's
OtherNames(registered) ==
    ((R_ADK_DB_TOOLS \cup A_ADK_DB_TOOLS \cup ADK_ALL_TOOLS) \ registered) \cup {"drop_table"}

NoArgs ==
    [table_name |-> NoSuchTable, columns |-> <<>>, condition |-> <<>>,
     data |-> EmptyDict, new_values |-> EmptyDict, csv_content |-> <<>>,
     candidates_data |-> <<>>, job_description |-> <<>>]

Request(name, args, fault) == [name |-> name, args |-> args, fault |-> fault]

NoRequest == Request("", NoArgs, "none")

NotInvoked == [invoked |-> FALSE, raised |-> FALSE, dumpRaised |-> FALSE, err |-> ""]

Invoked(name, out) ==
    [invoked |-> TRUE, raised |-> out.raised,
     dumpRaised |-> ~out.raised /\ JsonDumpsRaises(name, out.ret),
     err |-> out.err]

NoResponse == Responds(<<>>)

\* One synchronous request, start to finish: the dispatcher looks the name up,
\* runs the tool and answers.
Handle(name, args, fault, out, answer) ==
    /\ calls < MaxCalls
    /\ run.pc = "idle"
    /\ calls' = calls + 1
    /\ req' = Request(name, args, fault)
    /\ pre' = db
    /\ tool' = Invoked(name, out)
    /\ resp' = answer
    /\ db' = out.db
    /\ UNCHANGED <<server, apiKey, run, log>>

\* a fault is part of a request only when the request runs into it
Meets(fault, out) == fault = "none" \/ out.met

HandleUnknown(name, answer) ==
    /\ calls < MaxCalls
    /\ run.pc = "idle"
    /\ calls' = calls + 1
    /\ req' = Request(name, NoArgs, "none")
    /\ resp' = answer
    /\ pre' = db
    /\ tool' = NotInvoked
    /\ UNCHANGED <<server, apiKey, db, run, log>>

---------------------------------------------------------------------------
(* The arguments the requests are drawn from *)

\* the resume server is asked about the source table and a table that is not there
R_Tables == {CandidatesTable, NoSuchTable}

ColumnLists == {<<"*">>, <<"id", ",", " ", "name">>, <<"nosuch">>, <<BlobOfName>>}

Conditions ==
    { <<>>, <<" ", "\n">>,
      <<"1", "=", "1">>, <<"id", " ", "=", " ", "1">>, <<"id", "=", "3">>,
      <<"nosuch", "=", "1">>, <<"id", "=">> }

Ann == [name |-> StrV(<<"Ann">>), email |-> StrV(<<"ann@x">>), skills |-> StrV(<<"Go">>)]

InsertData ==
    << EmptyDict,
       Ann,
       [name |-> StrV(<<"Bob">>), email |-> StrV(<<"bob@x">>), skills |-> Null],
       [name |-> StrV(<<"Zoe">>), email |-> StrV(<<"zoe@x">>)],
       [name |-> StrV(<<"Cy">>)],
       [id |-> IntV(1), name |-> StrV(<<"Dee">>), email |-> StrV(<<"dee@x">>)],
       [name |-> StrV(<<"Eve">>), email |-> StrV(<<"eve@x">>), nosuch |-> IntV(1)],
       [id |-> StrV(<<"3">>), name |-> StrV(<<"Fay">>), email |-> StrV(<<"fay@x">>)] >>

NewValues ==
    << EmptyDict,
       [name |-> StrV(<<"Zed">>)],
       [email |-> StrV(<<"zoe@x">>)],
       [email |-> Null],
       [skills |-> Null],
       [nosuch |-> IntV(1)] >>

CsvContents ==
    << <<>>,
       << <<" ">> >>,
       << <<>>, <<"name", "email">> >>,
       << <<"name", "email", "skills">> >>,
       << <<"name", "email", "skills">>, <<"Ann", "ann@x", "Go">>, <<>>, <<"Bob", "bob@x">> >>,
       << <<"name", "email">>, <<"Ann", "ann@x">>, <<"Zoe", "zoe@x">> >>,
       << <<"name", "email">>, <<"Ann", "ann@x">>, <<"Bob">> >>,
       << <<"name", "email", "nosuch">>, <<"Ann", "ann@x", "1">>, <<"Bob", "bob@x", "2">> >>,
       << <<"id", "name", "email">>, <<"7", "Ann", "ann@x">>, <<"x", "Bob", "bob@x">> >> >>

---------------------------------------------------------------------------
(* local_mcp_resume_agent/server.py: one action per tool *)

R_CallListTables ==
    /\ server = "resume"
    /\ \E fault \in {"none", "connect"} :
          \E out \in {list_db_tables(db, fault)} :
             /\ Meets(fault, out)
             /\ \E answer \in {R_DispatchRegistered("list_db_tables", out)} :
                   Handle("list_db_tables", NoArgs, fault, out, answer)

R_CallGetTableSchema ==
    /\ server = "resume"
    /\ \E t \in R_Tables, fault \in {"none", "connect"} :
          \E out \in {R_get_table_schema(db, t, fault)} :
             /\ Meets(fault, out)
             /\ \E answer \in {R_DispatchRegistered("get_table_schema", out)} :
                   Handle("get_table_schema", [NoArgs EXCEPT !.table_name = t], fault, out, answer)

R_CallQuery ==
    /\ server = "resume"
    /\ \E t \in R_Tables, cl \in ColumnLists, c \in Conditions, fault \in {"none", "connect"} :
          \E out \in {R_query_db_table(db, t, cl, c, fault)} :
             /\ Meets(fault, out)
             /\ \E answer \in {R_DispatchRegistered("query_db_table", out)} :
                   Handle("query_db_table",
                    [NoArgs EXCEPT !.table_name = t, !.columns = cl, !.condition = c],
                    fault, out, answer)

R_CallInsert ==
    /\ server = "resume"
    /\ \E t \in R_Tables, k \in DOMAIN InsertData, fault \in Faults :
          \E out \in {insert_data(db, t, InsertData[k], fault)} :
             /\ Meets(fault, out)
             /\ \E answer \in {R_DispatchRegistered("insert_data", out)} :
                   Handle("insert_data",
                    [NoArgs EXCEPT !.table_name = t, !.data = InsertData[k]],
                    fault, out, answer)

R_CallUpdate ==
    /\ server = "resume"
    /\ \E t \in R_Tables, k \in DOMAIN NewValues, c \in Conditions, fault \in Faults :
          \E out \in {update_data(db, t, NewValues[k], c, fault)} :
             /\ Meets(fault, out)
             /\ \E answer \in {R_DispatchRegistered("update_data", out)} :
                   Handle("update_data",
                    [NoArgs EXCEPT !.table_name = t, !.new_values = NewValues[k],
                                   !.condition = c],
                    fault, out, answer)

R_CallDelete ==
    /\ server = "resume"
    /\ \E t \in R_Tables, c \in Conditions, fault \in Faults :
          \E out \in {delete_data(db, t, c, fault)} :
             /\ Meets(fault, out)
             /\ \E answer \in {R_DispatchRegistered("delete_data", out)} :
                   Handle("delete_data",
                    [NoArgs EXCEPT !.table_name = t, !.condition = c],
                    fault, out, answer)

R_CallCsv ==
    /\ server = "resume"
    /\ \E t \in R_Tables, k \in DOMAIN CsvContents, fault \in Faults :
          \E out \in {insert_data_from_csv(db, t, CsvContents[k], fault)} :
             /\ Meets(fault, out)
             /\ \E answer \in {R_DispatchRegistered("insert_data_from_csv", out)} :
                   Handle("insert_data_from_csv",
                    [NoArgs EXCEPT !.table_name = t, !.csv_content = CsvContents[k]],
                    fault, out, answer)

R_CallUnknown ==
    /\ server = "resume"
    /\ \E name \in OtherNames(R_ADK_DB_TOOLS) :
          HandleUnknown(name, R_DispatchUnknown(name))

ResumeNext ==
    \/ R_CallListTables
    \/ R_CallGetTableSchema
    \/ R_CallQuery
    \/ R_CallInsert
    \/ R_CallUpdate
    \/ R_CallDelete
    \/ R_CallCsv
    \/ R_CallUnknown

---------------------------------------------------------------------------
(* The external classifier (Gemini, temperature 0): what one call can do *)

\* generate_content_async raises, or returns a response with this text
LlmRaises == [raised |-> TRUE, text |-> <<>>]
LlmText(t) == [raised |-> FALSE, text |-> t]

LlmAnswers ==
    << LlmRaises,
       LlmText(<<>>),
       LlmText(<<"Software", " ", "Development">>),
       LlmText(<<" ", "IT", " ", "Services", "\n">>),
       LlmText(<<"Unclassified">>),
       LlmText(<<"\n">>) >>

LlmError == "classifier call failed"

\* lines 223-229: the text of the answer, stripped; the default when the
\* response has no text
ParsedClassification(answer, default) ==
    IF answer.text # <<>> THEN Strip(answer.text) ELSE default

\* another member of the list as the fallback
FallbackIsSecond == CATEGORIES[2]

\* CATEGORIES[0]
FallbackCategory == CATEGORIES[1]

\* lines 233-238: an answer outside CATEGORIES is replaced by the first category
ChosenCategory(parsed) == IF parsed \in CategorySet THEN parsed ELSE FallbackCategory

---------------------------------------------------------------------------
(* local_mcp_analyzer/server.py: the tools *)

A_get_table_schema(d, table_name, fault) ==
    IF fault = "connect" THEN Faulted(Raises(ConnectError, d))
    ELSE Returns([table_name |-> table_name, columns |-> TableInfo(d, table_name)], d)

\* if condition and condition.strip() != "1=1"
HasRealCondition(condition) == condition # <<>> /\ Strip(condition) # <<"1", "=", "1">>

A_query_db_table(d, table_name, columns, condition, fault) ==
    IF fault = "connect" THEN Faulted(Raises(ConnectError, d))
    ELSE LET sel == SqlSelect(d[table_name], columns, HasRealCondition(condition), condition)
         IN IF sel.ok THEN Returns(sel.rows, d)
            ELSE Raises(sel.err, d)

\* candidate.get('skills', '')
SkillsOf(candidate) ==
    IF "skills" \in DOMAIN candidate THEN candidate["skills"] ELSE StrV(<<>>)

\* .strip() exists on a str only: None and numbers raise AttributeError
StripRaises(v) == v.k # "str"

\* a test of the raw field, without strip()
IsBlankSkillUnstripped(v) == v.s = <<>>

\* the candidate is skipped without a classifier call
IsBlankSkill(v) == Strip(v.s) = <<>>

\* candidate.get('id', f"idx_{i}"), i counting from 0
CandidateIdentifier(candidate, i) ==
    IF "id" \in DOMAIN candidate THEN candidate["id"] ELSE StrV(<<"idx_", ToString(i - 1)>>)

LogEntry(level, event, who) == [level |-> level, event |-> event, who |-> who]

\* CREATE TABLE IF NOT EXISTS t ("col" type, ...)
SqlCreateTable(tbl, coltypes) ==
    IF tbl.exists THEN Ok(tbl, 0)
    ELSE IF DOMAIN coltypes = {} THEN Err(tbl, "syntax error")
    ELSE Ok([exists |-> TRUE, cols |-> coltypes, strict |-> FALSE,
             rows |-> <<>>, seq |-> 0], 0)

\* a table whose columns are all TEXT, whatever the source table says
AllTextColumns(candidate, original_column_types) == [c \in DOMAIN candidate |-> "TEXT"]

\* lines 250-252: one column per key of the candidate, typed as the source
\* table types it, TEXT otherwise
ColumnDefinitions(candidate, original_column_types) ==
    [c \in DOMAIN candidate |->
        IF c \in DOMAIN original_column_types THEN original_column_types[c] ELSE "TEXT"]

\* counters that come into being with a category's first transfer
NoCountsYet == EmptyDict

\* {category: 0 for category in CATEGORIES}
ZeroCounts == [c \in CategorySet |-> 0]

\* conn is the connection of the run ("none" before get_db_connection),
\* in_tx whether its transaction is open, ended the statement that ended the
\* transaction; checked and created list the get_table_schema calls and the
\* CREATE TABLE statements the loop issued, by table; seen is what other
\* connections read while and after the run; in a second run over the same
\* rows rerun is TRUE and prev holds the fates of the first
RunIdle ==
    [pc |-> "idle", i |-> 0, tx |-> DbEmpty, counts |-> ZeroCounts,
     created_tables |-> {}, types |-> EmptyDict, fates |-> <<>>, asked |-> 0,
     began |-> FALSE, conn |-> "none", in_tx |-> FALSE, ended |-> "",
     checked |-> <<>>, created |-> <<>>, seen |-> {}, rerun |-> FALSE, prev |-> <<>>]

\* what became of a candidate the loop has handled: skipped, inserted or
\* failed, the category chosen for it and the answer the classifier gave
Fate(what, category, answer) == [what |-> what, category |-> category, answer |-> answer]

NotAsked == LlmText(<<>>)

\* the candidate's row is inserted and its category is left uncounted
NotCounted(counts, category) == counts

\* a counter that moves by two
CountedTwice(counts, category) == [counts EXCEPT ![category] = @ + 2]

\* transferred_counts[ai_classification] += 1
Counted(counts, category) == [counts EXCEPT ![category] = @ + 1]

\* a loop without the memo: every candidate has its table looked up
AlwaysCheck(created_tables, t) == TRUE

\* if target_table_name not in created_tables
NeedsCheck(created_tables, t) == t \notin created_tables

\* lines 244-265 for one classified candidate: make sure of the table, insert
\* the row, count it.  committed is what the other connection of
\* get_table_schema sees.
TransferOne(r, committed, candidate, category) ==
    LET t == TargetTableName(category)
        check == NeedsCheck(r.created_tables, t)
        absent == check /\ DOMAIN TableInfo(committed, t) = {}
        made == IF absent
                THEN SqlCreateTable(r.tx[t], ColumnDefinitions(candidate, r.types))
                ELSE Ok(r.tx[t], 0)
        ins == SqlInsert(made.tbl, candidate)
        issued == [r EXCEPT !.checked = IF check THEN Append(@, t) ELSE @,
                            !.created = IF absent THEN Append(@, t) ELSE @]
    IN IF ~made.ok
       THEN [ok |-> FALSE, err |-> made.err, run |-> issued]
       ELSE IF ~ins.ok
       THEN [ok |-> FALSE, err |-> ins.err,
             run |-> [issued EXCEPT !.tx[t] = made.tbl,
                                    !.created_tables = @ \cup {t}]]
       ELSE [ok |-> TRUE, err |-> "",
             run |-> [issued EXCEPT !.tx[t] = ins.tbl,
                                    !.created_tables = @ \cup {t},
                                    !.counts = Counted(@, category)]]

\* a connection that reads the uncommitted writes of another
SeesUncommitted(d, tx) == tx

\* what a connection other than the run's reads while the run's transaction
\* is open: the committed database d, nothing of tx
OtherConnectionSees(d, tx) == d

\* a handler that answers a candidate's exception with conn.rollback()
AfterCandidateErrorRollsBack(r, failed) ==
    [failed EXCEPT !.pc = "loop", !.i = r.i + 1, !.tx = db]

\* except Exception as e: ... continue  (lines 267-272)
AfterCandidateError(r, failed) == [failed EXCEPT !.pc = "loop", !.i = r.i + 1]

ClassifyResult(success, message, counts) ==
    [success |-> success, message |-> message, transferred_counts |-> counts]

\* a failure path that leaves the transaction's writes in the database
RollbackRunKeeps(d, tx) == tx

\* conn.rollback() of the batch transaction: nothing it wrote stays
RollbackRun(d, tx) == d

\* conn.commit(): everything it wrote becomes the database
CommitRun(d, tx) == tx


---------------------------------------------------------------------------
(* local_mcp_analyzer/server.py: the requests *)

A_Tables == {CandidatesTable, TargetTableName(<<"Banking">>), NoSuchTable}

Cand(id, name, email, skills) ==
    [id |-> IntV(id), name |-> StrV(<<name>>), email |-> StrV(<<email>>), skills |-> skills]

\* candidate rows a caller can pass: the two seed rows as query_db_table
\* returns them, rows with an empty, a blank, a missing and a null skills
\* field, a row without id and a row with a key the source table lacks
CandidatePool ==
    << Cand(1, "Zoe", "zoe@x", StrV(<<"SQL">>)),
       Cand(2, "Max", "max@x", StrV(<<" ", "SEO">>)),
       Cand(3, "Bo", "bo@x", StrV(<<>>)),
       Cand(4, "Di", "di@x", StrV(<<" ", "\n">>)),
       [id |-> IntV(5), name |-> StrV(<<"Ed">>), email |-> StrV(<<"ed@x">>)],
       Cand(6, "Flo", "flo@x", Null),
       [name |-> StrV(<<"Gus">>), email |-> StrV(<<"gus@x">>), skills |-> StrV(<<"Java">>)],
       [id |-> IntV(8), name |-> StrV(<<"Hal">>), email |-> StrV(<<"hal@x">>),
        skills |-> StrV(<<"Go">>), notes |-> StrV(<<"x">>)] >>

Batches == UNION {[1..n -> DOMAIN CandidatePool] : n \in 0..MaxBatch}

BatchOf(picks) == [j \in DOMAIN picks |-> CandidatePool[picks[j]]]

ClassifyName == "classify_and_transfer_candidates"

Candidates == req.args.candidates_data

\* a function that returns without closing its connection
LeavesOpen(r) == r

\* finally: if conn: conn.close()
FinallyClose(r) ==
    IF r.conn = "open" THEN [r EXCEPT !.conn = "closed", !.in_tx = FALSE] ELSE r

\* if conn: conn.rollback()
RolledBack(r) ==
    IF r.conn = "open" THEN [r EXCEPT !.in_tx = FALSE, !.ended = "rollback"] ELSE r

\* conn.commit() went through
Committed(r) == [r EXCEPT !.in_tx = FALSE, !.ended = "commit"]

\* the function returns result; the dispatcher dumps it and answers
ReturnClassify(result, d, r, entries) ==
    /\ run' = [FinallyClose(r) EXCEPT !.pc = "done"]
    /\ db' = d
    /\ log' = log \o entries
    /\ tool' = Invoked(ClassifyName, Returns(result, d))
    /\ resp' = A_DispatchRegistered(ClassifyName, Returns(result, d))

\* a check of the credential before the check for an empty batch
PrecheckKeyFirst(candidates_data, key) ==
    IF ~key THEN "nokey" ELSE IF candidates_data = <<>> THEN "empty" ELSE "run"

\* a body that never looks at the credential
PrecheckWithoutKey(candidates_data, key) ==
    IF candidates_data = <<>> THEN "empty" ELSE "run"

\* lines 136-142: the two early returns, in the order the code takes them
Precheck(candidates_data, key) ==
    IF candidates_data = <<>> THEN "empty" ELSE IF ~key THEN "nokey" ELSE "run"

\* lines 136-198: the request arrives; the early returns, the connection, BEGIN,
\* the counters and the source table's types
A_CallClassify ==
    /\ server = "analyzer"
    /\ run.pc = "idle"
    /\ calls = 0
    /\ calls' = calls + 1
    /\ pre' = db
    /\ \E picks \in Batches, fault \in {"none", "connect"} :
          /\ fault = "connect" => Precheck(BatchOf(picks), apiKey) = "run"
          /\ req' = Request(ClassifyName,
                            [NoArgs EXCEPT !.candidates_data = BatchOf(picks)], fault)
          /\ IF Precheck(BatchOf(picks), apiKey) = "empty"
             THEN ReturnClassify(
                      ClassifyResult(TRUE, <<"No candidate data provided for classification.">>,
                                     EmptyDict),
                      db, RunIdle,
                      <<LogEntry("INFO", "received no data", Null)>>)
             ELSE IF Precheck(BatchOf(picks), apiKey) = "nokey"
             THEN ReturnClassify(
                      ClassifyResult(FALSE, <<"AI Classification API key is missing.">>,
                                     EmptyDict),
                      db, RunIdle,
                      <<LogEntry("ERROR", "GEMINI_API_KEY is not set", Null)>>)
             ELSE IF fault = "connect"
             THEN ReturnClassify(
                      ClassifyResult(FALSE,
                          <<"Database error during classification and transfer", ConnectError>>,
                          EmptyDict),
                      db, RunIdle,
                      <<LogEntry("ERROR", "Database error", Null)>>)
             ELSE /\ run' = [RunIdle EXCEPT !.pc = "loop", !.i = 1, !.tx = db, !.began = TRUE,
                                            !.conn = "open", !.in_tx = TRUE,
                                            !.types = TableInfo(db, CandidatesTable)]
                  /\ log' = <<LogEntry("INFO", "Starting AI classification and transfer", Null)>>
                  /\ UNCHANGED <<db, tool, resp>>
    /\ UNCHANGED <<server, apiKey>>

\* lines 201-221: the next candidate; its skills field is read and stripped,
\* a blank one is skipped, any other is sent to the classifier
A_NextCandidate ==
    /\ server = "analyzer"
    /\ run.pc = "loop"
    /\ run.i <= Len(Candidates)
    /\ LET candidate == Candidates[run.i]
           who == CandidateIdentifier(candidate, run.i)
       IN IF StripRaises(SkillsOf(candidate))
          THEN ReturnClassify(
                   ClassifyResult(FALSE,
                       <<"An unexpected error occurred during classification and transfer",
                         "AttributeError">>,
                       EmptyDict),
                   RollbackRun(db, run.tx), RolledBack(run),
                   <<LogEntry("CRITICAL", "unexpected critical error", who)>>)
          ELSE IF IsBlankSkill(SkillsOf(candidate))
          THEN /\ run' = [run EXCEPT !.i = @ + 1,
                                     !.fates = Append(@, Fate("skipped", <<>>, NotAsked))]
               /\ log' = Append(log, LogEntry("WARNING", "no skill description", who))
               /\ UNCHANGED <<db, tool, resp>>
          ELSE /\ run' = [run EXCEPT !.pc = "await", !.asked = @ + 1]
               /\ UNCHANGED <<db, tool, resp, log>>
    /\ UNCHANGED <<server, apiKey, calls, req, pre>>

\* the log lines of a classification: the empty-answer warning and the
\* invalid-category error with its forced-category notice
ClassificationLog(answer, parsed, who) ==
    (IF answer.text = <<>>
     THEN <<LogEntry("WARNING", "LLM returned empty or no text", who)>> ELSE <<>>)
    \o (IF parsed \notin CategorySet
        THEN <<LogEntry("ERROR", "LLM returned an invalid category", who),
               LogEntry("INFO", "Forced into category", who)>>
        ELSE <<>>)
    \o <<LogEntry("INFO", "classified as", who)>>

\* lines 218-272: the classifier call returns or raises; the candidate is
\* placed, or an exception skips it
A_ClassifierAnswers ==
    /\ server = "analyzer"
    /\ run.pc = "await"
    /\ \E k \in DOMAIN LlmAnswers :
          LET answer == LlmAnswers[k]
              candidate == Candidates[run.i]
              who == CandidateIdentifier(candidate, run.i)
              failureLog == <<LogEntry("ERROR", "Error processing candidate", who)>>
          IN IF answer.raised
             THEN /\ run' = [AfterCandidateError(run, run)
                                EXCEPT !.fates = Append(@, Fate("failed", <<>>, answer))]
                  /\ log' = log \o failureLog
             ELSE \E parsed \in {ParsedClassification(answer, <<"Unclassified">>)} :
                  \E moved \in {TransferOne(run, OtherConnectionSees(db, run.tx), candidate,
                                             ChosenCategory(parsed))} :
                     IF moved.ok
                     THEN /\ run' = [moved.run EXCEPT
                                        !.pc = "loop", !.i = @ + 1,
                                        !.fates = Append(@, Fate("inserted", ChosenCategory(parsed), answer))]
                          /\ log' = log \o ClassificationLog(answer, parsed, who)
                     ELSE /\ run' = [AfterCandidateError(run, moved.run)
                                        EXCEPT !.fates = Append(@, Fate("failed", ChosenCategory(parsed), answer))]
                          /\ log' = log \o ClassificationLog(answer, parsed, who) \o failureLog
    /\ UNCHANGED <<server, apiKey, db, calls, req, tool, resp, pre>>

\* lines 274-303: after the last candidate the transaction is committed and
\* the counts are returned; a commit that fails is rolled back
A_Finish ==
    /\ server = "analyzer"
    /\ run.pc = "loop"
    /\ run.i > Len(Candidates)
    /\ \E fault \in {"none", "commit"} :
          /\ req' = [req EXCEPT !.fault = fault]
          /\ IF fault = "commit"
             THEN ReturnClassify(
                      ClassifyResult(FALSE,
                          <<"Database error during classification and transfer", CommitError>>,
                          EmptyDict),
                      RollbackRun(db, run.tx), RolledBack(run),
                      <<LogEntry("ERROR", "Database error", Null)>>)
             ELSE ReturnClassify(
                      ClassifyResult(TRUE,
                          <<"Candidate classification and transfer completed.">>,
                          run.counts),
                      CommitRun(db, run.tx), Committed(run),
                      <<LogEntry("INFO", "Transaction committed", Null)>>)
    /\ UNCHANGED <<server, apiKey, calls, pre>>

A_CallQuery ==
    /\ server = "analyzer"
    /\ \E t \in A_Tables, cl \in ColumnLists, c \in Conditions, fault \in {"none", "connect"} :
          \E out \in {A_query_db_table(db, t, cl, c, fault)} :
             /\ Meets(fault, out)
             /\ \E answer \in {A_DispatchRegistered("query_db_table", out)} :
                   Handle("query_db_table",
                          [NoArgs EXCEPT !.table_name = t, !.columns = cl, !.condition = c],
                          fault, out, answer)

A_CallGetTableSchema ==
    /\ server = "analyzer"
    /\ \E t \in A_Tables, fault \in {"none", "connect"} :
          \E out \in {A_get_table_schema(db, t, fault)} :
             /\ Meets(fault, out)
             /\ \E answer \in {A_DispatchRegistered("get_table_schema", out)} :
                   Handle("get_table_schema", [NoArgs EXCEPT !.table_name = t],
                          fault, out, answer)

A_CallUnknown ==
    /\ server = "analyzer"
    /\ \E name \in OtherNames(A_ADK_DB_TOOLS) :
          HandleUnknown(name, A_DispatchUnknown(name))

\* Beside the run: a request served while the run waits for the classifier,
\* or a request to the other server on the same database file, reads
\* through a connection of its own (lines 72-119).  run.seen keeps one read
\* taken while the run holds uncommitted writes and one taken after the run.
A_ReadBesideRun ==
    /\ server = "analyzer"
    /\ run.began
    /\ run.pc \in {"loop", "await", "done"}
    /\ run.pc # "done" => run.tx # db
    /\ LET at == IF run.pc = "done" THEN "after" ELSE "during"
       IN /\ \A s \in run.seen : s.at # at
          /\ run' = [run EXCEPT !.seen = @ \cup
                        {[at |-> at, view |-> OtherConnectionSees(db, run.tx)]}]
    /\ UNCHANGED <<server, apiKey, db, calls, req, tool, resp, pre, log>>

\* The caller sends the request of a run that succeeded once more, with the
\* same candidates_data; lines 136-198 as in A_CallClassify.
A_CallClassifyAgain ==
    /\ server = "analyzer"
    /\ run.pc = "done"
    /\ run.began
    /\ req.name = ClassifyName
    /\ resp.content[1].text.success
    /\ calls < MaxCalls
    /\ calls' = calls + 1
    /\ pre' = db
    /\ req' = Request(ClassifyName, req.args, "none")
    /\ run' = [RunIdle EXCEPT !.pc = "loop", !.i = 1, !.tx = db, !.began = TRUE,
                              !.conn = "open", !.in_tx = TRUE,
                              !.types = TableInfo(db, CandidatesTable),
                              !.rerun = TRUE, !.prev = run.fates]
    /\ log' = <<LogEntry("INFO", "Starting AI classification and transfer", Null)>>
    /\ UNCHANGED <<server, apiKey, db, tool, resp>>

\* the batch workflow, run and run again
RerunNext ==
    \/ A_CallClassify
    \/ A_NextCandidate
    \/ A_ClassifierAnswers
    \/ A_Finish
    \/ A_CallClassifyAgain

\* the batch workflow on its own
RunNext ==
    \/ A_CallClassify
    \/ A_NextCandidate
    \/ A_ClassifierAnswers
    \/ A_Finish

\* the batch workflow with a reader beside it
BatchNext ==
    \/ A_CallClassify
    \/ A_NextCandidate
    \/ A_ClassifierAnswers
    \/ A_Finish
    \/ A_ReadBesideRun

AnalyzerNext ==
    \/ A_CallClassify
    \/ A_NextCandidate
    \/ A_ClassifierAnswers
    \/ A_Finish
    \/ A_CallQuery
    \/ A_CallGetTableSchema
    \/ A_CallUnknown

---------------------------------------------------------------------------
(* jd_agent_test/sub_agents/server.py *)

JobDescriptions == {<<>>, <<"Java", " ", "developer">>}

analyze_jd_industry(job_description, key, answer) ==
    IF job_description = <<>> THEN <<"Unknown">>
    ELSE IF ~key THEN <<"Error:", " ", "API Key Missing">>
    ELSE IF answer.raised THEN <<"Error:", " ", LlmError>>
    ELSE LET ai_classification == ParsedClassification(answer, <<"Unknown">>)
         IN IF ai_classification \notin CategorySet THEN CATEGORIES[1]
            ELSE ai_classification

J_query_table(d, table_name, columns, condition, fault) ==
    IF fault = "connect" THEN Faulted(Raises(ConnectError, d))
    ELSE LET sel == SqlSelect(d[table_name], columns, HasRealCondition(condition), condition)
         IN IF sel.ok THEN Returns(sel.rows, d)
            ELSE Raises(sel.err, d)

J_CallAnalyze ==
    /\ server = "jd"
    /\ \E jd \in JobDescriptions, k \in DOMAIN LlmAnswers :
          \E out \in {Returns(analyze_jd_industry(jd, apiKey, LlmAnswers[k]), db)} :
             \E answer \in {J_DispatchRegistered("analyze_jd_industry", out)} :
                Handle("analyze_jd_industry", [NoArgs EXCEPT !.job_description = jd],
                       "none", out, answer)

J_CallQuery ==
    /\ server = "jd"
    /\ \E t \in A_Tables, cl \in ColumnLists, c \in Conditions, fault \in {"none", "connect"} :
          \E out \in {J_query_table(db, t, cl, c, fault)} :
             /\ Meets(fault, out)
             /\ \E answer \in {J_DispatchRegistered("query_table", out)} :
                   Handle("query_table",
                          [NoArgs EXCEPT !.table_name = t, !.columns = cl, !.condition = c],
                          fault, out, answer)

J_CallUnknown ==
    /\ server = "jd"
    /\ \E name \in OtherNames(ADK_ALL_TOOLS) :
          HandleUnknown(name, J_DispatchUnknown(name))

JdNext ==
    \/ J_CallAnalyze
    \/ J_CallQuery
    \/ J_CallUnknown

---------------------------------------------------------------------------
(* The state a server process starts in *)

Start ==
    /\ calls = 0
    /\ req = NoRequest
    /\ tool = NotInvoked
    /\ resp = NoResponse
    /\ pre = db
    /\ run = RunIdle
    /\ log = <<>>

\* the resume server works on the database create_db.py made
InitResume ==
    /\ server = "resume"
    /\ apiKey = TRUE
    /\ db = DbCreated
    /\ Start

\* the analyzer meets any of the databases, with or without the API key
InitAnalyzer ==
    /\ server = "analyzer"
    /\ apiKey \in BOOLEAN
    /\ db \in InitialDatabases
    /\ Start

InitJd ==
    /\ server = "jd"
    /\ apiKey \in BOOLEAN
    /\ db = DbCreated
    /\ Start

Init == InitResume \/ InitAnalyzer \/ InitJd

Next == ResumeNext \/ AnalyzerNext \/ JdNext

\* the three server processes, each on its own
Spec == Init /\ [][Next]_vars

SpecResume == InitResume /\ [][ResumeNext]_vars

SpecAnalyzer == InitAnalyzer /\ [][AnalyzerNext]_vars

SpecJd == InitJd /\ [][JdNext]_vars

\* one batch and what is read beside it
SpecBatch == InitAnalyzer /\ [][BatchNext]_vars

\* a batch and its repetitions
SpecRerun == InitAnalyzer /\ [][RerunNext]_vars

\* One batch, run to its end: the coroutine runs on whenever it can, and
\* every classifier call returns or raises in the end.
SpecRun ==
    /\ InitAnalyzer
    /\ [][RunNext]_vars
    /\ WF_vars(A_NextCandidate)
    /\ WF_vars(A_ClassifierAnswers)
    /\ WF_vars(A_Finish)

---------------------------------------------------------------------------
(* What the claims speak of *)

\* the text of the single content the dispatcher answered with
Payload == resp.content[1].text

\* the tool table of the server that runs
ToolTable ==
    CASE server = "resume" -> R_ADK_DB_TOOLS
      [] server = "analyzer" -> A_ADK_DB_TOOLS
      [] OTHER -> ADK_ALL_TOOLS

\* a text of nothing but blanks and line breaks, the empty text included
BlankText(s) == \A i \in DOMAIN s : s[i] \in {" ", "\n"}

CsvRequest == req.name = "insert_data_from_csv"

CsvArg == req.args.csv_content

\* the content has a character that is no blank, so a header line is read
CsvHasText == \E i \in DOMAIN CsvArg : \E j \in DOMAIN CsvArg[i] : CsvArg[i][j] \notin {" ", "\n", ""}

\* a classify_and_transfer_candidates call has returned
ClassifyReturned == req.name = ClassifyName /\ run.pc = "done"

ClassifyRunning == req.name = ClassifyName /\ run.pc \in {"loop", "await"}

InsertedInto(category) ==
    {j \in DOMAIN run.fates :
        run.fates[j].what = "inserted" /\ run.fates[j].category = category}

WithFate(what) == {j \in DOMAIN run.fates : run.fates[j].what = what}

RowCount(d, category) == Len(d[TargetTableName(category)].rows)

LogEntries(event) == {k \in DOMAIN log : log[k].event = event}

\* the failures the code answers for the whole batch: no API key, no
\* connection, a commit that fails, a skills value that is no string
BatchLevelCause ==
    \/ ~apiKey
    \/ req.fault # "none"
    \/ /\ run.i \in DOMAIN Candidates
       /\ SkillsOf(Candidates[run.i]).k # "str"

\* blank as the claims mean it: no skills key, or a string of blanks only
BlankCandidate(candidate) ==
    \/ "skills" \notin DOMAIN candidate
    \/ /\ candidate["skills"].k = "str"
       /\ BlankText(candidate["skills"].s)

RECURSIVE SumOfCounts(_, _)
SumOfCounts(counts, n) ==
    IF n = 0 THEN 0 ELSE counts[CATEGORIES[n]] + SumOfCounts(counts, n - 1)

TotalOf(counts) == SumOfCounts(counts, Len(CATEGORIES))

\* the answer has no text, or its trimmed text is none of the seven names
OutOfSet(answer) == answer.text = <<>> \/ Strip(answer.text) \notin CategorySet

\* the candidates the classifier answered for
Classified ==
    {j \in DOMAIN run.fates :
        run.fates[j].what \in {"inserted", "failed"} /\ ~run.fates[j].answer.raised}

SoftwareDevelopment == <<"Software", " ", "Development">>

---------------------------------------------------------------------------
(* The claims *)

\* C1: on each of the three servers, when the function of a registered tool
\* raises, or the dump of its result raises, call_mcp_tool answers with exactly
\* one text content holding success false and the message "Failed to execute
\* tool '<name>': <error>"; no exception leaves call_mcp_tool.
C1_FailureIsAnswered ==
    /\ ~resp.raised
    /\ (tool.invoked /\ (tool.raised \/ tool.dumpRaised)) =>
          /\ Len(resp.content) = 1
          /\ resp.content[1].type = "text"
          /\ DOMAIN Payload = {"success", "message"}
          /\ Payload.success = FALSE
          /\ Payload.message =
                <<"Failed to execute tool", req.name,
                  IF tool.raised THEN tool.err ELSE JsonTypeError>>

\* a query whose rows hold bytes: the tool returned, json.dumps raised
C1_Witness ==
    /\ tool.invoked
    /\ tool.dumpRaised
    /\ server = "resume"
    /\ Len(resp.content) = 1

\* C2: a request whose name is not in the server's tool table is answered
\* with the failure "Tool '<name>' not implemented by this server.", nothing
\* is raised, no tool function runs and the database is what it was.
C2_UnknownToolRefused ==
    (req.name # "" /\ req.name \notin ToolTable) =>
        /\ ~resp.raised
        /\ Len(resp.content) = 1
        /\ resp.content[1].type = "text"
        /\ Payload = [success |-> FALSE,
                      message |-> <<"Tool", req.name, "not implemented by this server.">>]
        /\ ~tool.invoked
        /\ db = pre

\* the analyzer is asked for a tool of the resume server
C2_Witness ==
    /\ server = "analyzer"
    /\ req.name = "insert_data"
    /\ Len(resp.content) = 1
    /\ ~tool.invoked

\* C3: update_data with new values and a condition that is empty or blank
\* fails with the safety message and leaves the database alone, so does
\* delete_data; whenever an update_data or delete_data call changed the
\* database its condition was not blank.
C3_NoBlankConditionMutation ==
    /\ (/\ req.name = "update_data"
        /\ DOMAIN req.args.new_values # {}
        /\ BlankText(req.args.condition)) =>
          /\ Payload = [success |-> FALSE,
                        message |-> <<"Update condition cannot be empty.">>]
          /\ db = pre
    /\ (req.name = "delete_data" /\ BlankText(req.args.condition)) =>
          /\ Payload = [success |-> FALSE,
                        message |-> <<"Deletion condition cannot be empty.">>]
          /\ db = pre
    /\ (req.name \in {"update_data", "delete_data"} /\ db # pre) =>
          ~BlankText(req.args.condition)

\* delete_data on the seeded table with a condition of blanks only
C3_Witness ==
    /\ req.name = "delete_data"
    /\ req.args.table_name = CandidatesTable
    /\ req.args.condition = <<" ", "\n">>
    /\ Len(db[CandidatesTable].rows) = 2
    /\ Payload.success = FALSE

\* C4: insert_data_from_csv with a header that names a column the table does
\* not have fails: success false, rows_inserted 0, the database as before; when
\* the connection is there the failure is the validation's, not the store's.
C4_UnknownCsvColumnRejected ==
    (/\ CsvRequest
     /\ CsvHasText
     /\ \E j \in DOMAIN CsvArg[1] :
           CsvArg[1][j] \notin DOMAIN pre[req.args.table_name].cols) =>
        /\ Payload.success = FALSE
        /\ Payload.rows_inserted = 0
        /\ db = pre
        /\ req.fault = "none" => Payload.message[1] = "CSV data validation error"

\* two rows that are valid for the known columns under a header with one
\* unknown column, sent for the seeded table
C4_Witness ==
    /\ CsvRequest
    /\ req.args.table_name = CandidatesTable
    /\ CsvHasText
    /\ CsvArg[1] = <<"name", "email", "nosuch">>
    /\ Len(CsvArg) = 3
    /\ req.fault = "none"
    /\ Payload.rows_inserted = 0
    /\ db = pre

\* C5: a CSV import whose batch the store rejects at some row leaves none of
\* the batch's rows: the database is as before, success is false and
\* rows_inserted is 0; a call either adds every data row or none.
C5_CsvAllOrNothing ==
    CsvRequest =>
        /\ Payload.success = FALSE => db = pre
        /\ (CsvHasText /\ Payload.success = FALSE) => Payload.rows_inserted = 0
        /\ \/ db = pre
           \/ /\ Payload.success
              /\ Len(db[req.args.table_name].rows) =
                    Len(pre[req.args.table_name].rows) + Len(CsvRows(CsvArg))
              /\ Payload.rows_inserted = Len(CsvRows(CsvArg))

\* the first row was accepted, a later one rejected by the store
C5_Witness ==
    /\ CsvRequest
    /\ CsvHasText
    /\ req.fault = "none"
    /\ Payload.success = FALSE
    /\ Payload.message[1] = "Database error during CSV insert"
    /\ ExecuteMany(pre[req.args.table_name], CsvRows(CsvArg)).tbl # pre[req.args.table_name]
    /\ db = pre

\* C6: an exception while one candidate is processed is logged and skips that
\* candidate only: the loop goes on to the next candidate, the rows inserted
\* so far stay in the transaction, the commit at the end stores them, and a
\* call that returns success false has a cause of the whole batch, never a
\* candidate's exception.
C6_CandidateFailureSkipsOne ==
    /\ (req.name = ClassifyName /\ run.pc = "loop") => Len(run.fates) = run.i - 1
    /\ ClassifyRunning =>
          \A c \in CategorySet :
             RowCount(run.tx, c) = RowCount(db, c) + Cardinality(InsertedInto(c))
    /\ Cardinality(LogEntries("Error processing candidate")) = Cardinality(WithFate("failed"))
    /\ \A k \in LogEntries("Error processing candidate") : log[k].level = "ERROR"
    /\ (ClassifyReturned /\ Payload.success) =>
          /\ Len(run.fates) = Len(Candidates)
          /\ \A c \in CategorySet :
                RowCount(db, c) = RowCount(pre, c) + Cardinality(InsertedInto(c))
    /\ (ClassifyReturned /\ ~Payload.success) => BatchLevelCause

\* the first candidate was inserted, the second failed, the call succeeded
C6_Witness ==
    /\ ClassifyReturned
    /\ Payload.success
    /\ Len(run.fates) = 2
    /\ run.fates[1].what = "inserted"
    /\ run.fates[2].what = "failed"
    /\ db # pre

\* C7: when classify_and_transfer_candidates returns success false its
\* transferred_counts is empty and the database, tables and rows, is what it
\* was before the call.
C7_BatchFailureLeavesNothing ==
    (ClassifyReturned /\ ~Payload.success) =>
        /\ DOMAIN Payload.transferred_counts = {}
        /\ db = pre

\* the transaction had written before the call failed
C7_Witness ==
    /\ ClassifyReturned
    /\ ~Payload.success
    /\ run.tx # pre
    /\ db = pre

\* C8: a candidate whose skills are empty, blank or missing is skipped: the
\* classifier is called for the other candidates only, the counters count
\* inserted candidates only, the tables gain inserted candidates only, the
\* skip is logged as a warning and the loop goes on.
C8_BlankSkillSkipped ==
    req.name = ClassifyName =>
        /\ \A j \in DOMAIN run.fates :
              BlankCandidate(Candidates[j]) <=> run.fates[j].what = "skipped"
        /\ run.pc = "await" => ~BlankCandidate(Candidates[run.i])
        /\ run.asked = Cardinality(DOMAIN run.fates \ WithFate("skipped"))
                          + (IF run.pc = "await" THEN 1 ELSE 0)
        /\ \A c \in CategorySet : run.counts[c] = Cardinality(InsertedInto(c))
        /\ Cardinality(LogEntries("no skill description")) = Cardinality(WithFate("skipped"))
        /\ \A k \in LogEntries("no skill description") : log[k].level = "WARNING"
        /\ run.pc = "loop" => Len(run.fates) = run.i - 1
        /\ (run.pc = "done" /\ Payload.success) =>
              /\ Len(run.fates) = Len(Candidates)
              /\ \A c \in CategorySet :
                    RowCount(db, c) = RowCount(pre, c) + Cardinality(InsertedInto(c))

\* a blank candidate first, an inserted one after it, the call succeeded
C8_Witness ==
    /\ ClassifyReturned
    /\ Payload.success
    /\ Len(run.fates) = 2
    /\ run.fates[1].what = "skipped"
    /\ "skills" \in DOMAIN Candidates[1]
    /\ Candidates[1]["skills"] = StrV(<<" ", "\n">>)
    /\ run.fates[2].what = "inserted"

\* C9: when the loop has handled a batch of N candidates of which exactly one
\* is blank and every other one was classified and inserted, the counters sum
\* to N-1, and so does the transferred_counts of a call that succeeds.
C9_OneBlankOfN ==
    (/\ req.name = ClassifyName
     /\ Len(run.fates) = Len(Candidates)
     /\ Cardinality({j \in DOMAIN Candidates : BlankCandidate(Candidates[j])}) = 1
     /\ \A j \in DOMAIN Candidates :
           ~BlankCandidate(Candidates[j]) => run.fates[j].what = "inserted") =>
        /\ TotalOf(run.counts) = Len(Candidates) - 1
        /\ (run.pc = "done" /\ Payload.success) =>
              TotalOf(Payload.transferred_counts) = Len(Candidates) - 1

\* two candidates, one blank, the other transferred
C9_Witness ==
    /\ ClassifyReturned
    /\ Payload.success
    /\ Len(Candidates) = 2
    /\ Cardinality(WithFate("skipped")) = 1
    /\ Cardinality(WithFate("inserted")) = 1
    /\ TotalOf(Payload.transferred_counts) = 1

C11_OutOfSetIgnored ==
    req.name = ClassifyName =>
        \A j \in Classified :
           OutOfSet(run.fates[j].answer) => run.fates[j].what # "inserted"

\* C12: a call with an empty sequence returns success true with an empty
\* transferred_counts, with or without the credential; the classifier is not
\* called, no transaction is begun and the database is as before.
C12_EmptyBatchShortCircuits ==
    (ClassifyReturned /\ Candidates = <<>>) =>
        /\ Payload.success
        /\ DOMAIN Payload.transferred_counts = {}
        /\ run.asked = 0
        /\ ~run.began
        /\ db = pre

\* the empty call on a server that has no credential
C12_Witness ==
    /\ ClassifyReturned
    /\ Candidates = <<>>
    /\ ~apiKey
    /\ Payload.success

\* C13: without the credential a call with candidates returns success false
\* with an empty transferred_counts before anything else happens: no candidate
\* is examined, the classifier is not called, no transaction is begun and the
\* database, tables and rows, is as before.
C13_NoCredentialFailsUpFront ==
    (req.name = ClassifyName /\ Candidates # <<>> /\ ~apiKey) =>
        /\ run.pc = "done"
        /\ ~Payload.success
        /\ DOMAIN Payload.transferred_counts = {}
        /\ run.fates = <<>>
        /\ run.i = 0
        /\ run.asked = 0
        /\ ~run.began
        /\ db = pre

\* two candidates sent to a server that has no credential
C13_Witness ==
    /\ ClassifyReturned
    /\ Len(Candidates) = 2
    /\ ~apiKey
    /\ ~Payload.success

\* the table a category's candidates belong in: lowercase, blanks to
\* underscores, suffix _candidates
SlugTable(category) ==
    CASE category = <<"Software", " ", "Development">> ->
            <<"software", "_", "development", "_candidates">>
      [] category = <<"IT", " ", "Services">> -> <<"it", "_", "services", "_candidates">>
      [] category = <<"Banking">> -> <<"banking", "_candidates">>
      [] category = <<"Insurance">> -> <<"insurance", "_candidates">>
      [] category = <<"Healthcare">> -> <<"healthcare", "_candidates">>
      [] category = <<"Travel">> -> <<"travel", "_candidates">>
      [] category = <<"Real", " ", "Estate">> -> <<"real", "_", "estate", "_candidates">>

\* the tables as the run sees them, and as they were when it began
RunTables == IF run.pc = "done" THEN db ELSE run.tx

RunBase == IF run.pc = "done" THEN pre ELSE db

\* the run has written and its writes are not rolled back
RunHolds ==
    /\ req.name = ClassifyName
    /\ run.began
    /\ run.pc = "done" => Payload.success

\* row carries every key of the candidate with the candidate's value, as a
\* column of that declared type stores it
RowOf(candidate, row, cols) ==
    /\ DOMAIN candidate \subseteq DOMAIN row
    /\ \A c \in DOMAIN candidate :
          row[c] = IF cols[c] = "INTEGER" THEN IntegerAffinity(candidate[c])
                   ELSE TextAffinity(candidate[c])

\* C14: in a run each candidate is inserted once, into the table named by
\* the slug of its chosen category, or not at all: every table has gained
\* exactly one row per candidate inserted for a category whose slug names it,
\* and that table holds the candidate's row.
C14_OneTablePerCandidate ==
    RunHolds =>
        /\ Len(run.fates) <= Len(Candidates)
        /\ \A t \in TableNames :
              Len(RunTables[t].rows) =
                 Len(RunBase[t].rows)
                   + Cardinality({j \in WithFate("inserted") :
                                     SlugTable(run.fates[j].category) = t})
        /\ \A j \in WithFate("inserted") :
              \E k \in DOMAIN RunTables[SlugTable(run.fates[j].category)].rows :
                 RowOf(Candidates[j],
                       RunTables[SlugTable(run.fates[j].category)].rows[k],
                       RunTables[SlugTable(run.fates[j].category)].cols)

\* two candidates of one call landed in two different tables
C14_Witness ==
    /\ ClassifyReturned
    /\ Payload.success
    /\ Len(run.fates) = 2
    /\ run.fates[1].what = "inserted"
    /\ run.fates[2].what = "inserted"
    /\ run.fates[1].category # run.fates[2].category
    /\ Len(db[<<"it", "_", "services", "_candidates">>].rows) = 1

RECURSIVE IsSubsequence(_, _)
\* every member of a is in b, in the order of a
IsSubsequence(a, b) ==
    IF a = <<>> THEN TRUE
    ELSE IF b = <<>> THEN FALSE
    ELSE IF Head(a) = Head(b) THEN IsSubsequence(Tail(a), Tail(b))
    ELSE IsSubsequence(a, Tail(b))

\* C15: a run leaves the source table candidates as it was, updates and
\* deletes no row that was in any table before it, and writes nothing but
\* new category tables and new rows in category tables.
C15_CopiesNeverMoves ==
    req.name = ClassifyName =>
        /\ RunTables[CandidatesTable] = RunBase[CandidatesTable]
        /\ \A t \in TableNames \ CategoryTables : RunTables[t] = RunBase[t]
        /\ \A t \in CategoryTables :
              /\ IsSubsequence(RunBase[t].rows, RunTables[t].rows)
              /\ RunBase[t].exists =>
                    /\ RunTables[t].exists
                    /\ RunTables[t].cols = RunBase[t].cols
                    /\ RunTables[t].strict = RunBase[t].strict

\* a row was added to a table that held a row before, and the call succeeded
C15_Witness ==
    /\ ClassifyReturned
    /\ Payload.success
    /\ Len(pre[<<"software", "_", "development", "_candidates">>].rows) = 1
    /\ Len(db[<<"software", "_", "development", "_candidates">>].rows) = 2
    /\ db[CandidatesTable] = pre[CandidatesTable]

\* C16: a transferred candidate becomes a new row whose identity the
\* destination table assigns: in a table with an AUTOINCREMENT id the rows a run
\* adds carry the next ids of that table, whatever id the candidates carried.
C16_DestinationAssignsId ==
    RunHolds =>
        \A t \in CategoryTables :
           RunBase[t].strict =>
              Ids(RunTables[t]) \ Ids(RunBase[t]) =
                 LET last == Max(Ids(RunBase[t]) \cup {RunBase[t].seq})
                 IN (last + 1) .. (last + Len(RunTables[t].rows) - Len(RunBase[t].rows))

\* the condition id = r, r a one-digit row id
IsIdEquals(condition, r) ==
    LET c == SqlTokens(condition)
    IN /\ Len(c) = 3
       /\ c[1] = "id"
       /\ c[2] = "="
       /\ c[3] \in Digits
       /\ IntOfTok(c[3]) = r

\* C17: when insert_data has succeeded with row_id r and the next request
\* is query_db_table on that table with the condition id = r, the query
\* returns exactly one row, whose id is r and whose values on the inserted
\* columns are the inserted values.
C17_InsertQueryRoundTrip ==
    [][(/\ req.name = "insert_data"
        /\ Payload.success
        /\ req'.name = "query_db_table"
        /\ req'.args.table_name = req.args.table_name
        /\ req'.args.columns = <<"*">>
        /\ IsIdEquals(req'.args.condition, Payload.row_id)
        /\ ~tool'.raised)
       => /\ Len(resp'.content) = 1
          /\ Len(resp'.content[1].text) = 1
          /\ resp'.content[1].text[1]["id"] = IntV(Payload.row_id)
          /\ \A c \in DOMAIN req.args.data :
                resp'.content[1].text[1][c] = req.args.data[c]]_vars

SevenCategories ==
    { <<"Software", " ", "Development">>, <<"IT", " ", "Services">>, <<"Banking">>,
      <<"Insurance">>, <<"Healthcare">>, <<"Travel">>, <<"Real", " ", "Estate">> }

\* C18 as stated: every successful return carries a transferred_counts with
\* an entry for each of the seven categories.
C18_EverySuccessCountsAll ==
    (ClassifyReturned /\ Payload.success) =>
        DOMAIN Payload.transferred_counts = SevenCategories

\* C18, amended: every successful return for a sequence that is not empty
\* carries a transferred_counts with an entry for each of the seven
\* categories, the count of a category that received no row being 0.
C18_SuccessOnCandidatesCountsAll ==
    (ClassifyReturned /\ Payload.success /\ Candidates # <<>>) =>
        /\ DOMAIN Payload.transferred_counts = SevenCategories
        /\ \A c \in SevenCategories :
              /\ Payload.transferred_counts[c] = Cardinality(InsertedInto(c))
              /\ RowCount(db, c) = RowCount(pre, c) =>
                    Payload.transferred_counts[c] = 0

\* one candidate transferred, the six other categories reported with 0
C18_Witness ==
    /\ ClassifyReturned
    /\ Payload.success
    /\ Len(Candidates) = 1
    /\ Payload.transferred_counts[<<"Software", " ", "Development">>] = 1
    /\ Payload.transferred_counts[<<"Banking">>] = 0

\* C19: get_table_schema for a table that does not exist returns
\* {table_name, columns: []}, on every server that has the tool in its table.
C19_AbsentTableHasNoColumns ==
    (/\ req.name = "get_table_schema"
     /\ req.name \in ToolTable
     /\ req.fault = "none"
     /\ ~db[req.args.table_name].exists)
    => /\ DOMAIN Payload = {"table_name", "columns"}
       /\ Payload.table_name = req.args.table_name
       /\ DOMAIN Payload.columns = {}

\* what the store says to the statement of the request, run on the table as
\* it was before the call: "" when the statement and its COMMIT go through
StoreError ==
    LET a == req.args
        tbl == pre[a.table_name]
        stmt == CASE req.name = "insert_data" -> SqlInsert(tbl, a.data)
                  [] req.name = "update_data" -> SqlUpdate(tbl, a.new_values, a.condition)
                  [] OTHER -> SqlDelete(tbl, a.condition)
    IN IF ~stmt.ok THEN stmt.err
       ELSE IF req.fault = "commit" THEN CommitError
       ELSE ""

\* the request is a statement that reached the store and that the store
\* rejected, at execute or at the COMMIT that belongs to it
StoreRejects ==
    /\ req.name \in {"insert_data", "update_data", "delete_data"}
    /\ req.name \in ToolTable
    /\ req.fault # "connect"
    /\ req.name = "insert_data" => DOMAIN req.args.data # {}
    /\ req.name = "update_data" => DOMAIN req.args.new_values # {}
    /\ req.name \in {"update_data", "delete_data"} => ~ConditionIsEmpty(req.args.condition)
    /\ StoreError # ""

\* C20: when the store rejects the statement of insert_data, update_data or
\* delete_data, every table holds exactly what it held before the call and
\* the tool returns {success: false, message} naming the store's error; it
\* does not raise.
C20_RejectedStatementRolledBack ==
    StoreRejects =>
        /\ db = pre
        /\ tool.invoked /\ ~tool.raised
        /\ Len(resp.content) = 1
        /\ DOMAIN Payload = {"success", "message"}
        /\ Payload.success = FALSE
        /\ Payload.message[2] = StoreError

\* an update that matches both rows of candidates and gives them one email
\* fails on the UNIQUE constraint, and both rows are as they were
C20_Witness ==
    /\ StoreRejects
    /\ req.name = "update_data"
    /\ req.fault = "none"
    /\ StoreError = "constraint failed"
    /\ Cardinality(Matching(pre[req.args.table_name], TRUE, req.args.condition)) >= 2
    /\ Payload.success = FALSE
    /\ db = pre

\* the strings analyze_jd_industry builds for a failure: "Error: ..."
IsErrorString(s) == Len(s) >= 1 /\ s[1] = "Error:"

\* C21: analyze_jd_industry never raises and returns one of the seven
\* category names or an error string, for every input.
C21_CategoryOrErrorString ==
    (req.name = "analyze_jd_industry" /\ req.name \in ToolTable) =>
        /\ tool.invoked /\ ~tool.raised
        /\ Len(resp.content) = 1
        /\ Payload \in SevenCategories \/ IsErrorString(Payload)

\* the candidates whose skills value is a string that is not blank
NonBlankSkills ==
    {j \in DOMAIN Candidates :
        /\ "skills" \in DOMAIN Candidates[j]
        /\ Candidates[j]["skills"].k = "str"
        /\ ~BlankText(Candidates[j]["skills"].s)}

\* the classifier has been called once for every settled candidate that was
\* not skipped, and once more when a call is pending; the pending call is for
\* candidate i, and every candidate before i is settled
CallsInStep ==
    /\ run.asked = Cardinality(DOMAIN run.fates \ WithFate("skipped"))
                     + (IF run.pc = "await" THEN 1 ELSE 0)
    /\ run.pc = "await" =>
          /\ run.i \in NonBlankSkills
          /\ Len(run.fates) = run.i - 1

\* C22: within a run the classifier is called one candidate at a time, in
\* input order and at most once per candidate: a call starts only when every
\* earlier candidate is inserted, skipped or failed, and a returned run has
\* made as many calls as there are candidates with non-blank skills.
C22_ClassifierCalledInOrder ==
    /\ [](RunHolds => CallsInStep)
    /\ []((ClassifyReturned /\ run.began) => run.asked = Cardinality(NonBlankSkills))
    /\ [][run'.asked # run.asked =>
             /\ run'.asked = run.asked + 1
             /\ run.pc = "loop" /\ run'.pc = "await"
             /\ run'.i = run.i
             /\ Len(run.fates) = run.i - 1]_vars

\* the database a reader must find once the run has returned: what the batch
\* wrote when it was committed, what was there before when it was rolled back
AfterBatch == IF Payload.success THEN run.tx ELSE pre

\* C23: the batch is one transaction, committed once after the last candidate.
\* While it is under way the committed database is the one from before the
\* call, and that is what another connection reads; once it has returned the
\* database holds all of the batch (success) or none of it (failure), and
\* that is what another connection reads; the database changes in one step
\* only, the commit after the last candidate.
C23_BatchIsOneTransaction ==
    /\ []((req.name = ClassifyName /\ run.began) =>
            /\ run.pc # "done" => db = pre
            /\ run.pc = "done" => db = AfterBatch
            /\ \A s \in run.seen :
                  s.view = IF s.at = "during" THEN pre ELSE AfterBatch)
    /\ [][db' # db =>
             /\ run.pc = "loop" /\ run.i > Len(Candidates)
             /\ run'.pc = "done" /\ run'.ended = "commit"
             /\ db' = run.tx]_vars

\* a batch that created a table and inserted a row was read while the row
\* was uncommitted, and again after the commit
C23_Witness ==
    /\ ClassifyReturned
    /\ Payload.success
    /\ \E t \in CategoryTables : ~pre[t].exists /\ Len(db[t].rows) >= 1
    /\ [at |-> "during", view |-> pre] \in run.seen
    /\ [at |-> "after", view |-> db] \in run.seen

\* C24 as stated: every call ends, with the success result after a commit or
\* the failure result after a rollback, its connection closed and no
\* transaction open.
C24_EndsCommittedOrRolledBack ==
    /\ (req.name = ClassifyName) ~> (run.pc = "done")
    /\ [](ClassifyReturned =>
            /\ \/ Payload.success /\ run.ended = "commit"
               \/ ~Payload.success /\ run.ended = "rollback"
            /\ run.conn # "open"
            /\ ~run.in_tx)

\* C24, amended: every call ends.  A call that opened its connection ends
\* with the success result after a commit or with the failure result after a
\* rollback, the connection closed and no transaction open; a call that
\* returned before it opened one (empty batch, missing credential, no
\* connection) has neither committed nor rolled back and has no connection.
C24_EndsAndClosesWhatItOpened ==
    /\ (req.name = ClassifyName) ~> (run.pc = "done")
    /\ []((ClassifyReturned /\ run.began) =>
            /\ \/ Payload.success /\ run.ended = "commit"
               \/ ~Payload.success /\ run.ended = "rollback"
            /\ run.conn = "closed"
            /\ ~run.in_tx)
    /\ []((ClassifyReturned /\ ~run.began) =>
            /\ run.conn = "none" /\ run.ended = "" /\ ~run.in_tx
            /\ db = pre)

\* a run that had inserted a row ended in the rollback of a failed commit,
\* its connection closed
C24_Witness ==
    /\ ClassifyReturned
    /\ run.began
    /\ WithFate("inserted") # {}
    /\ ~Payload.success
    /\ run.ended = "rollback"
    /\ run.conn = "closed"

\* no member of seq occurs in it twice
NoRepeat(seq) == \A i, j \in DOMAIN seq : i # j => seq[i] # seq[j]

\* C25: in a run a destination table that was looked up, found or created, is
\* remembered: it is looked up at most once and created at most once, every
\* table looked up is in created_tables, and created_tables holds no other.
C25_TableCheckedOnce ==
    (req.name = ClassifyName /\ run.began) =>
        /\ NoRepeat(run.checked)
        /\ NoRepeat(run.created)
        /\ Range(run.created) \subseteq Range(run.checked)
        /\ Range(run.checked) = run.created_tables

\* two candidates went into one table that the first of them made: one
\* lookup, one CREATE TABLE
C25_Witness ==
    /\ req.name = ClassifyName
    /\ Len(run.fates) = 2
    /\ run.fates[1].what = "inserted"
    /\ run.fates[2].what = "inserted"
    /\ run.fates[1].category = run.fates[2].category
    /\ Len(run.created) = 1
    /\ run.checked = run.created

\* the candidates of the run routed to table t, in the order handled
RoutedTo(t) ==
    {j \in DOMAIN run.fates :
        run.fates[j].category # <<>> /\ SlugTable(run.fates[j].category) = t}

\* C26: a category table the run had to create has one column per key of the
\* first candidate routed to it, of the type the column has in candidates,
\* and TEXT for a key candidates does not have or when candidates is absent.
C26_CreatedFromCandidate ==
    RunHolds =>
        \A t \in CategoryTables :
           (~RunBase[t].exists /\ RunTables[t].exists) =>
              /\ RoutedTo(t) # {}
              /\ LET first == CHOOSE j \in RoutedTo(t) : \A k \in RoutedTo(t) : j <= k
                     source == RunBase[CandidatesTable]
                 IN /\ DOMAIN RunTables[t].cols = DOMAIN Candidates[first]
                    /\ \A c \in DOMAIN Candidates[first] :
                          RunTables[t].cols[c] =
                             IF source.exists /\ c \in DOMAIN source.cols
                             THEN source.cols[c] ELSE "TEXT"

\* a table made for a candidate with the key notes, which candidates lacks:
\* id is INTEGER as in candidates, notes is TEXT
C26_Witness ==
    /\ ClassifyReturned
    /\ Payload.success
    /\ \E t \in CategoryTables :
          /\ ~pre[t].exists /\ db[t].exists
          /\ pre[CandidatesTable].exists
          /\ "notes" \in DOMAIN db[t].cols
          /\ db[t].cols["notes"] = "TEXT"
          /\ db[t].cols["id"] = "INTEGER"

\* the candidates whose skills value is null
NullSkills ==
    {j \in DOMAIN Candidates :
        "skills" \in DOMAIN Candidates[j] /\ Candidates[j]["skills"].k = "null"}

\* C27: a candidate with null skills is skipped like a blank one: a run that
\* met no storage fault handles every candidate, skips those with null
\* skills, commits the rows of the others and returns success.
C27_NullSkillsSkipped ==
    (ClassifyReturned /\ run.began /\ req.fault = "none") =>
        /\ Payload.success
        /\ Len(run.fates) = Len(Candidates)
        /\ \A j \in NullSkills : run.fates[j].what = "skipped"
        /\ \A c \in CategorySet :
              RowCount(db, c) = RowCount(pre, c) + Cardinality(InsertedInto(c))

\* the rows the run has put into the table of category c so far
InsertedSoFar(c) == Len(RunTables[SlugTable(c)].rows) - Len(RunBase[SlugTable(c)].rows)

\* C28: at every point of a run each counter is the number of rows the run
\* has inserted into its category's table, and the counters add up to no
\* more than the candidates with non-blank skills; the result of a committed
\* run carries these counters, the result of a run rolled back carries none
\* and leaves no row; a counter moves by one, in the step that inserted a row
\* into its table.
C28_CountsAreInsertedRows ==
    /\ [](RunHolds =>
            /\ \A c \in SevenCategories : run.counts[c] = InsertedSoFar(c)
            /\ TotalOf(run.counts) <= Cardinality(NonBlankSkills)
            /\ run.pc = "done" => Payload.transferred_counts = run.counts)
    /\ []((ClassifyReturned /\ run.began /\ ~Payload.success) =>
            /\ Payload.transferred_counts = EmptyDict
            /\ db = pre)
    /\ [][\A c \in SevenCategories :
             run'.counts[c] # run.counts[c] =>
                /\ run'.counts[c] = run.counts[c] + 1
                /\ run.pc = "await"
                /\ Len(run'.tx[SlugTable(c)].rows) = Len(run.tx[SlugTable(c)].rows) + 1]_vars

\* of two candidates with skills one was inserted and one failed: one row,
\* a count of one
C28_Witness ==
    /\ ClassifyReturned
    /\ Payload.success
    /\ Len(run.fates) = 2
    /\ run.fates[1].what = "inserted"
    /\ run.fates[2].what = "failed"
    /\ TotalOf(Payload.transferred_counts) = 1
    /\ Cardinality(NonBlankSkills) = 2

\* the columns table t had when candidate j came to it: those it had before
\* the run, or those of the earlier candidate it was created for; none when
\* candidate j is the one it is created for
ColumnsBefore(j, t) ==
    IF RunBase[t].exists THEN DOMAIN RunBase[t].cols
    ELSE IF \E k \in RoutedTo(t) : k < j
         THEN DOMAIN Candidates[CHOOSE k \in RoutedTo(t) : \A m \in RoutedTo(t) : k <= m]
         ELSE {}

\* candidate j was routed to a table that was there before it, pre-existing
\* or created for an earlier candidate, and has a key that is no column of it
ExtraKey(j) ==
    /\ run.fates[j].category # <<>>
    /\ ColumnsBefore(j, SlugTable(run.fates[j].category)) # {}
    /\ ~(DOMAIN Candidates[j] \subseteq ColumnsBefore(j, SlugTable(run.fates[j].category)))

\* C29: a candidate routed to a table that is there already and lacks one of
\* its keys is not inserted and not counted, the table keeps its columns, and
\* the run goes on: every candidate is handled and, unless the whole batch
\* fails for another cause, the run commits and returns success.
C29_ExtraKeySkipsCandidate ==
    /\ RunHolds =>
          /\ \A j \in DOMAIN run.fates : ExtraKey(j) => run.fates[j].what = "failed"
          /\ \A c \in SevenCategories :
                /\ run.counts[c] = Cardinality(InsertedInto(c))
                /\ InsertedSoFar(c) = Cardinality(InsertedInto(c))
          /\ \A t \in CategoryTables :
                /\ RunBase[t].exists => RunTables[t].cols = RunBase[t].cols
                /\ \A j \in RoutedTo(t) :
                      ColumnsBefore(j, t) # {} => DOMAIN RunTables[t].cols = ColumnsBefore(j, t)
          /\ run.pc = "loop" => Len(run.fates) = run.i - 1
    /\ (ClassifyReturned /\ run.began /\ ~BatchLevelCause) =>
          /\ Payload.success
          /\ Len(run.fates) = Len(Candidates)

\* the first candidate had its table created and was inserted, the second,
\* with the key notes, went to the same table and failed; the run committed
\* the first one's row
C29_Witness ==
    /\ ClassifyReturned
    /\ Payload.success
    /\ Len(run.fates) = 2
    /\ run.fates[1].what = "inserted"
    /\ run.fates[2].what = "failed"
    /\ run.fates[1].category = run.fates[2].category
    /\ ~pre[SlugTable(run.fates[1].category)].exists
    /\ ExtraKey(2)
    /\ Len(db[SlugTable(run.fates[1].category)].rows) = 1

\* the classifier gave every candidate the answer it gave it in the first run
SameAnswers ==
    /\ Len(run.fates) = Len(run.prev)
    /\ \A j \in DOMAIN run.fates : run.fates[j].answer = run.prev[j].answer

\* C30: a second run over the same candidate rows with the same classifier
\* answers adds no row: every category table holds after it the rows it held
\* after the first run, the tables of create_db.py and those the first run
\* created alike.
C30_RerunAddsNoRow ==
    (ClassifyReturned /\ run.rerun /\ Payload.success /\ SameAnswers) =>
        \A t \in CategoryTables : db[t].rows = pre[t].rows

==========================================================================
